---- MODULE Spec2Model ----
(***************************************************************************)
(* Model of the image -> SVG converter: the rectangle decomposition       *)
(* engine (findOptimalBlocks and its helpers, src/image_processor.go) and  *)
(* the document serializer (SVGWriter, src/unnamed/part_005).              *)
(*                                                                         *)
(* A conversion is modelled as a sequence of steps: entry of               *)
(* findOptimalBlocks, one step per iteration of its inner (seed) loop,     *)
(* then one step per WriteString call of SVGWriter.WriteBlocks.  Under     *)
(* SpecRerun the same grid is converted a second time (Rerun).             *)
(***************************************************************************)
EXTENDS Integers, Sequences, FiniteSets, TLC

\* ---------------------------------------------------------------- bounds
MaxW == 2
MaxH == 2

\* ------------------------------------------------------------ ColorRGBA
\* Four 8-bit channels (ColorRGBA).  The palette holds a fully transparent
\* colour, a partially transparent colour with the same r,g,b (they differ
\* in alpha only), and an opaque colour with other r,g,b.
ColorRGBA(r, g, b, a) == [R |-> r, G |-> g, B |-> b, A |-> a]

Palette ==
  { ColorRGBA(17, 34, 51, 0),
    ColorRGBA(17, 34, 51, 128),
    ColorRGBA(18, 52, 86, 255) }

VARIABLES
  width,       \* canvas width  (w)
  height,      \* canvas height (h)
  grid,        \* grid[y][x] : ColorRGBA, rows 0..height-1, columns 0..width-1
  used,        \* used[y][x] : BOOLEAN, the used mask of findOptimalBlocks
  blocks,      \* the block list built by findOptimalBlocks
  x, y,        \* loop variables of findOptimalBlocks
  pc,          \* position of the conversion
  bi,          \* index (0-based) of the next block of WriteBlocks' loop
  out,         \* the strings written to the output file, in order
  err,         \* "nil", or the call that returned an error
  run,         \* 1 for the first conversion of the grid, 2 for the second
  prevBlocks,  \* block list returned by the first conversion
  prevOut,     \* strings written by the first conversion
  prevErr,     \* err of the first conversion
  prevQuiet,   \* quiet flag of the first conversion
  quiet,       \* the global quiet flag
  progress,    \* the ProgressTracker in use
  writes,      \* number of WriteString calls made on the output file
  created,     \* TRUE when os.Create has created or truncated the output file
  force,       \* the global force flag
  inputValid,  \* TRUE when the input file passes validateInputFile
  output,      \* output path: "" (not given), else the path
  outExists,   \* TRUE when a file exists at the path the output is written to
  maxW, maxH,  \* requested width and height (0 = original)
  img,         \* bounds of the decoded (and resized) image, or "nil"
  cells,       \* number of grid cells written by createColorGrid
  touched,     \* <<row, column>> of the grid / used-mask cells that the last
               \* iteration of findOptimalBlocks' seed loop read or wrote
  reported,    \* block count passed to reportConversionResults
  arg, ret     \* argument and result of a function called on its own

envVars == <<force, inputValid, output, outExists, maxW, maxH, img, cells,
             touched, reported>>
fnVars == <<arg, ret>>

vars == <<width, height, grid, used, blocks, x, y, pc, bi, out, err,
          run, prevBlocks, prevOut, prevErr, prevQuiet, quiet, progress, writes,
          created, envVars, fnVars>>

\* ------------------------------------------------- findOptimalBlocks helpers
\* Variant without the transparent skip (every pixel seeds a block).
IsTransparentNever(color) == FALSE

\* Variant that skips transparent pixels only while progress is reported.
IsTransparentWhenReporting(color) == color.A = 0 /\ ~quiet

\* color.A == 0
IsTransparent(color) == color.A = 0

\* Variant comparing r,g,b only, not alpha.
RECURSIVE WidthLoopRGB(_, _, _, _, _, _)
WidthLoopRGB(g, px, py, color, maxX, w) ==
  IF /\ px + w < maxX
     /\ g[py][px + w].R = color.R
     /\ g[py][px + w].G = color.G
     /\ g[py][px + w].B = color.B
    THEN WidthLoopRGB(g, px, py, color, maxX, w + 1)
    ELSE w

findMaxWidthRGB(g, px, py, color, maxX) ==
  WidthLoopRGB(g, px, py, color, maxX, 1)

\* Variant that returns after the initial "width := 1".
findMaxWidthSingle(g, px, py, color, maxX) == 1

RECURSIVE WidthLoop(_, _, _, _, _, _)
WidthLoop(g, px, py, color, maxX, w) ==
  IF px + w < maxX /\ g[py][px + w] = color
    THEN WidthLoop(g, px, py, color, maxX, w + 1)
    ELSE w

findMaxWidthRGBA(g, px, py, color, maxX) ==
  WidthLoop(g, px, py, color, maxX, 1)

RECURSIVE HeightLoop(_, _, _, _, _, _, _)
HeightLoop(g, px, py, color, w, maxY, h) ==
  IF py + h < maxY
    THEN IF \E i \in 0..(w - 1) : g[py + h][px + i] # color
           THEN h
           ELSE HeightLoop(g, px, py, color, w, maxY, h + 1)
    ELSE h

\* Variant that checks only the first column of each row.
RECURSIVE HeightLoopFirstColumn(_, _, _, _, _, _, _)
HeightLoopFirstColumn(g, px, py, color, w, maxY, h) ==
  IF py + h < maxY /\ g[py + h][px] = color
    THEN HeightLoopFirstColumn(g, px, py, color, w, maxY, h + 1)
    ELSE h

findMaxHeightFirstColumn(g, px, py, color, w, maxY) ==
  HeightLoopFirstColumn(g, px, py, color, w, maxY, 1)

findMaxHeightRGBA(g, px, py, color, w, maxY) ==
  HeightLoop(g, px, py, color, w, maxY, 1)

RECURSIVE ExpandLoop(_, _, _, _, _, _, _, _, _)
ExpandLoop(g, u, px, py, ew, eh, color, maxX, maxY) ==
  LET canRight == /\ px + ew < maxX
                  /\ \A i \in py..(py + eh - 1) :
                        ~(u[i][px + ew] \/ g[i][px + ew] # color)
      ew2      == IF canRight THEN ew + 1 ELSE ew
      canDown  == /\ py + eh < maxY
                  /\ \A i \in px..(px + ew2 - 1) :
                        ~(u[py + eh][i] \/ g[py + eh][i] # color)
      eh2      == IF canDown THEN eh + 1 ELSE eh
  IN  IF canRight \/ canDown
        THEN ExpandLoop(g, u, px, py, ew2, eh2, color, maxX, maxY)
        ELSE <<ew2, eh2>>

\* Variant whose expansion checks the used mask but not the colour.
RECURSIVE ExpandLoopNoColor(_, _, _, _, _, _, _, _, _)
ExpandLoopNoColor(g, u, px, py, ew, eh, color, maxX, maxY) ==
  LET canRight == /\ px + ew < maxX
                  /\ \A i \in py..(py + eh - 1) : ~u[i][px + ew]
      ew2      == IF canRight THEN ew + 1 ELSE ew
      canDown  == /\ py + eh < maxY
                  /\ \A i \in px..(px + ew2 - 1) : ~u[py + eh][i]
      eh2      == IF canDown THEN eh + 1 ELSE eh
  IN  IF canRight \/ canDown
        THEN ExpandLoopNoColor(g, u, px, py, ew2, eh2, color, maxX, maxY)
        ELSE <<ew2, eh2>>

\* Variant that tries the row below before the column to the right.
RECURSIVE ExpandLoopDownFirst(_, _, _, _, _, _, _, _, _)
ExpandLoopDownFirst(g, u, px, py, ew, eh, color, maxX, maxY) ==
  LET canDown  == /\ py + eh < maxY
                  /\ \A i \in px..(px + ew - 1) :
                        ~(u[py + eh][i] \/ g[py + eh][i] # color)
      eh2      == IF canDown THEN eh + 1 ELSE eh
      canRight == /\ px + ew < maxX
                  /\ \A i \in py..(py + eh2 - 1) :
                        ~(u[i][px + ew] \/ g[i][px + ew] # color)
      ew2      == IF canRight THEN ew + 1 ELSE ew
  IN  IF canRight \/ canDown
        THEN ExpandLoopDownFirst(g, u, px, py, ew2, eh2, color, maxX, maxY)
        ELSE <<ew2, eh2>>

expandBlockDownFirst(g, u, px, py, w, h, color, maxX, maxY) ==
  ExpandLoopDownFirst(g, u, px, py, w, h, color, maxX, maxY)

expandBlockNoColor(g, u, px, py, w, h, color, maxX, maxY) ==
  ExpandLoopNoColor(g, u, px, py, w, h, color, maxX, maxY)

expandBlockRGBA(g, u, px, py, w, h, color, maxX, maxY) ==
  ExpandLoop(g, u, px, py, w, h, color, maxX, maxY)

\* Variant that marks one row more than the block has.
markBlockUsedExtraRow(u, px, py, w, h) ==
  [i \in DOMAIN u |->
     [j \in DOMAIN u[i] |->
        IF i >= py /\ i <= py + h /\ j >= px /\ j < px + w
          THEN TRUE
          ELSE u[i][j]]]

\* Variant that marks only the first row of the block.
markBlockUsedFirstRow(u, px, py, w, h) ==
  [i \in DOMAIN u |->
     [j \in DOMAIN u[i] |->
        IF i = py /\ j >= px /\ j < px + w
          THEN TRUE
          ELSE u[i][j]]]

markBlockUsed(u, px, py, w, h) ==
  [i \in DOMAIN u |->
     [j \in DOMAIN u[i] |->
        IF i >= py /\ i < py + h /\ j >= px /\ j < px + w
          THEN TRUE
          ELSE u[i][j]]]

\* Variant with Width and Height exchanged.
BlockSwapped(px, py, w, h, color) ==
  [X |-> px, Y |-> py, Width |-> h, Height |-> w,
   R |-> color.R, G |-> color.G, B |-> color.B, A |-> color.A]

Block(px, py, w, h, color) ==
  [X |-> px, Y |-> py, Width |-> w, Height |-> h,
   R |-> color.R, G |-> color.G, B |-> color.B, A |-> color.A]

\* Variant that puts the new block in front of the list.
prependBlock(bs, b) == <<b>> \o bs

\* blocks = append(blocks, Block{...})
appendBlock(bs, b) == Append(bs, b)

\* Variant that keeps the mask of an earlier call when there is one.
NewUsedKept(w, h) ==
  IF used # <<>>
    THEN used
    ELSE [i \in 0..(h - 1) |-> [j \in 0..(w - 1) |-> FALSE]]

\* used := make([][]bool, height); used[i] = make([]bool, width)
NewUsed(w, h) == [i \in 0..(h - 1) |-> [j \in 0..(w - 1) |-> FALSE]]

\* --------------------------------------------- cells the helpers access
MinOf(S) == CHOOSE m \in S : \A n \in S : m <= n

\* Variant reading grid[y][x+width] before the test x+width < maxX.
RECURSIVE WidthLoopReadsUnguarded(_, _, _, _, _, _)
WidthLoopReadsUnguarded(g, px, py, color, maxX, w) ==
  {<<py, px + w>>} \cup
    (IF px + w < maxX /\ g[py][px + w] = color
       THEN WidthLoopReadsUnguarded(g, px, py, color, maxX, w + 1)
       ELSE {})

findMaxWidthReadsUnguarded(g, px, py, color, maxX) ==
  WidthLoopReadsUnguarded(g, px, py, color, maxX, 1)

\* cells read by "for x+width < maxX && grid[y][x+width] == color"
RECURSIVE WidthLoopReads(_, _, _, _, _, _)
WidthLoopReads(g, px, py, color, maxX, w) ==
  IF px + w < maxX
    THEN {<<py, px + w>>} \cup
           (IF g[py][px + w] = color
              THEN WidthLoopReads(g, px, py, color, maxX, w + 1)
              ELSE {})
    ELSE {}

findMaxWidthReads(g, px, py, color, maxX) ==
  WidthLoopReads(g, px, py, color, maxX, 1)

\* cells read by findMaxHeightRGBA: each row up to its first other colour
RECURSIVE HeightLoopReads(_, _, _, _, _, _, _)
HeightLoopReads(g, px, py, color, w, maxY, h) ==
  IF py + h < maxY
    THEN LET bad == {i \in 0..(w - 1) : g[py + h][px + i] # color}
         IN  IF bad # {}
               THEN {<<py + h, px + i>> : i \in 0..MinOf(bad)}
               ELSE {<<py + h, px + i>> : i \in 0..(w - 1)} \cup
                      HeightLoopReads(g, px, py, color, w, maxY, h + 1)
    ELSE {}

findMaxHeightReads(g, px, py, color, w, maxY) ==
  HeightLoopReads(g, px, py, color, w, maxY, 1)

\* cells read by expandBlockRGBA: in each pass the column right of the
\* rectangle and the row below it, each up to its first used or other cell
RECURSIVE ExpandLoopReads(_, _, _, _, _, _, _, _, _)
ExpandLoopReads(g, u, px, py, ew, eh, color, maxX, maxY) ==
  LET badR     == {i \in py..(py + eh - 1) :
                     u[i][px + ew] \/ g[i][px + ew] # color}
      readR    == IF px + ew < maxX
                    THEN {<<i, px + ew>> :
                            i \in py..(IF badR = {} THEN py + eh - 1
                                                    ELSE MinOf(badR))}
                    ELSE {}
      canRight == px + ew < maxX /\ badR = {}
      ew2      == IF canRight THEN ew + 1 ELSE ew
      badD     == {i \in px..(px + ew2 - 1) :
                     u[py + eh][i] \/ g[py + eh][i] # color}
      readD    == IF py + eh < maxY
                    THEN {<<py + eh, i>> :
                            i \in px..(IF badD = {} THEN px + ew2 - 1
                                                    ELSE MinOf(badD))}
                    ELSE {}
      canDown  == py + eh < maxY /\ badD = {}
      eh2      == IF canDown THEN eh + 1 ELSE eh
  IN  readR \cup readD \cup
        (IF canRight \/ canDown
           THEN ExpandLoopReads(g, u, px, py, ew2, eh2, color, maxX, maxY)
           ELSE {})

expandBlockReads(g, u, px, py, w, h, color, maxX, maxY) ==
  ExpandLoopReads(g, u, px, py, w, h, color, maxX, maxY)

\* cells written by markBlockUsed (i < len(used), j < len(used[i]))
markBlockUsedWrites(u, px, py, w, h) ==
  {c \in (py..(py + h - 1)) \X (px..(px + w - 1)) :
     c[1] < Cardinality(DOMAIN u) /\ c[2] < Cardinality(DOMAIN u[c[1]])}

\* --------------------------------------------------------------- SVGWriter
Digit(d) == <<"0", "1", "2", "3", "4", "5", "6", "7", "8", "9">>[d + 1]

\* strconv.Itoa for non-negative integers
RECURSIVE Itoa(_)
Itoa(n) == IF n < 10 THEN Digit(n) ELSE Itoa(n \div 10) \o Digit(n % 10)

hexChar(b) ==
  IF b < 10 THEN Digit(b)
            ELSE <<"a", "b", "c", "d", "e", "f">>[(b - 10) + 1]

\* Variant whose shorthand test leaves out the blue channel.
optimizeColorTwoChannels(r, g, b) ==
  IF r \div 16 = r % 16 /\ g \div 16 = g % 16
    THEN "#" \o hexChar(r \div 16) \o hexChar(g \div 16) \o hexChar(b \div 16)
    ELSE "#" \o hexChar(r \div 16) \o hexChar(r % 16)
             \o hexChar(g \div 16) \o hexChar(g % 16)
             \o hexChar(b \div 16) \o hexChar(b % 16)

optimizeColor(r, g, b) ==
  IF r \div 16 = r % 16 /\ g \div 16 = g % 16 /\ b \div 16 = b % 16
    THEN "#" \o hexChar(r \div 16) \o hexChar(g \div 16) \o hexChar(b \div 16)
    ELSE "#" \o hexChar(r \div 16) \o hexChar(r % 16)
             \o hexChar(g \div 16) \o hexChar(g % 16)
             \o hexChar(b \div 16) \o hexChar(b % 16)

\* Variant that truncates instead of rounding.
OpacityMilliTruncated(a) == (a * 1000) \div 255

\* float64(A)/255.0 in thousandths, rounded to nearest as FormatFloat(_, 'f', 3, 64)
\* does (A*1000/255 is never half-way between two thousandths for A in 0..255).
OpacityMilli(a) == (a * 2000 + 255) \div 510

\* strconv.FormatFloat(opacity, 'f', 3, 64)
FormatOpacity(a) ==
  LET t == OpacityMilli(a)
  IN  Itoa(t \div 1000) \o "." \o Digit((t \div 100) % 10)
        \o Digit((t \div 10) % 10) \o Digit(t % 10)

HeaderText(w, h) ==
  "<?xml version=\"1.0\" encoding=\"UTF-8\"?><svg width=\"" \o Itoa(w)
    \o "\" height=\"" \o Itoa(h)
    \o "\" xmlns=\"http://www.w3.org/2000/svg\">"

\* Variant that writes fill-opacity for every alpha (A <= 255).
RectTextOpacityAlways(b) ==
  "<rect x=\"" \o Itoa(b.X) \o "\" y=\"" \o Itoa(b.Y)
    \o "\" width=\"" \o Itoa(b.Width) \o "\" height=\"" \o Itoa(b.Height)
    \o "\" fill=\"" \o optimizeColor(b.R, b.G, b.B)
    \o "\" fill-opacity=\"" \o FormatOpacity(b.A)
    \o "\"/>"

RectText(b) ==
  "<rect x=\"" \o Itoa(b.X) \o "\" y=\"" \o Itoa(b.Y)
    \o "\" width=\"" \o Itoa(b.Width) \o "\" height=\"" \o Itoa(b.Height)
    \o "\" fill=\"" \o optimizeColor(b.R, b.G, b.B)
    \o (IF b.A < 255 THEN "\" fill-opacity=\"" \o FormatOpacity(b.A) ELSE "")
    \o "\"/>"

FooterText == "</svg>"

\* ------------------------------------------------------------------- Init
\* findOptimalBlocks is about to be called on a grid that createColorGrid
\* has built from a decoded image.
Init ==
  /\ width \in 1..MaxW
  /\ height \in 1..MaxH
  /\ grid \in [0..(height - 1) -> [0..(width - 1) -> Palette]]
  /\ used = <<>>
  /\ blocks = <<>>
  /\ x = 0
  /\ y = 0
  /\ pc = "start"
  /\ bi = 0
  /\ out = <<>>
  /\ err = "nil"
  /\ run = 1
  /\ prevBlocks = <<>>
  /\ prevOut = <<>>
  /\ prevErr = "nil"
  /\ prevQuiet = FALSE
  /\ quiet \in BOOLEAN
  /\ progress = [total |-> width * height,
                 processed |-> IF quiet THEN 0 ELSE width * height,
                 quiet |-> quiet, printed |-> ~quiet]
  /\ writes = 0
  /\ created = FALSE
  /\ force = FALSE
  /\ inputValid = TRUE
  /\ output = "out.svg"
  /\ outExists = FALSE
  /\ maxW = 0
  /\ maxH = 0
  /\ img = [w |-> width, h |-> height]
  /\ cells = width * height
  /\ touched = {}
  /\ reported = 0
  /\ arg = <<>>
  /\ ret = <<>>

\* --------------------------------------------------- findOptimalBlocks
\* Entry of findOptimalBlocks: allocate the used mask, empty block list.
Begin ==
  /\ pc = "start"
  /\ used' = NewUsed(width, height)
  /\ blocks' = <<>>
  /\ x' = 0
  /\ y' = 0
  /\ pc' = "scan"
  /\ touched' = {}
  /\ UNCHANGED <<width, height, grid, bi, out, err, run,
                 prevBlocks, prevOut, prevErr, prevQuiet,
                 quiet, progress, writes, created, force, inputValid, output, outExists,
                 maxW, maxH, img, cells, reported, fnVars>>

\* Variant without "x += expandedWidth - 1": the scan goes on at x + 1.
AdvanceByOne(nx) ==
  IF x + 1 < width
    THEN /\ x' = x + 1
         /\ y' = y
         /\ pc' = "scan"
    ELSE /\ x' = 0
         /\ y' = y + 1
         /\ pc' = IF y + 1 < height THEN "scan" ELSE "create"

\* The loop increments after one iteration of the inner loop that leaves the
\* column variable at nx: x++, and at the end of a row y++ and x := 0; the
\* function returns when the last row is exhausted.
Advance(nx) ==
  IF nx + 1 < width
    THEN /\ x' = nx + 1
         /\ y' = y
         /\ pc' = "scan"
    ELSE /\ x' = 0
         /\ y' = y + 1
         /\ pc' = IF y + 1 < height THEN "scan" ELSE "create"

\* if used[y][x] { continue }
SkipUsed ==
  /\ pc = "scan"
  /\ used[y][x]
  /\ Advance(x)
  /\ touched' = {<<y, x>>}
  /\ UNCHANGED <<width, height, grid, used, blocks, bi, out, err, run,
                 prevBlocks, prevOut, prevErr, prevQuiet,
                 quiet, progress, writes, created, force, inputValid, output, outExists,
                 maxW, maxH, img, cells, reported, fnVars>>

\* if color.A == 0 { used[y][x] = true; transparentBlocks++; continue }
SkipTransparent ==
  /\ pc = "scan"
  /\ ~used[y][x]
  /\ IsTransparent(grid[y][x])
  /\ used' = [used EXCEPT ![y][x] = TRUE]
  /\ Advance(x)
  /\ touched' = {<<y, x>>}
  /\ UNCHANGED <<width, height, grid, blocks, bi, out, err, run,
                 prevBlocks, prevOut, prevErr, prevQuiet,
                 quiet, progress, writes, created, force, inputValid, output, outExists,
                 maxW, maxH, img, cells, reported, fnVars>>

\* run scan, vertical extent, expansion, append, markBlockUsed, x += w - 1
EmitBlock ==
  /\ pc = "scan"
  /\ ~used[y][x]
  /\ ~IsTransparent(grid[y][x])
  /\ LET color     == grid[y][x]
         maxWidth  == findMaxWidthRGBA(grid, x, y, color, width)
         maxHeight == findMaxHeightRGBA(grid, x, y, color, maxWidth, height)
         expanded  == expandBlockRGBA(grid, used, x, y, maxWidth, maxHeight,
                                      color, width, height)
     IN  /\ blocks' = appendBlock(blocks,
                                   Block(x, y, expanded[1], expanded[2], color))
         /\ used' = markBlockUsed(used, x, y, expanded[1], expanded[2])
         /\ Advance(x + (expanded[1] - 1))
         /\ touched' =
              {<<y, x>>}
                \cup findMaxWidthReads(grid, x, y, color, width)
                \cup findMaxHeightReads(grid, x, y, color, maxWidth, height)
                \cup expandBlockReads(grid, used, x, y, maxWidth, maxHeight,
                                      color, width, height)
                \cup markBlockUsedWrites(used, x, y, expanded[1], expanded[2])
  /\ UNCHANGED <<width, height, grid, bi, out, err, run,
                 prevBlocks, prevOut, prevErr, prevQuiet,
                 quiet, progress, writes, created, force, inputValid, output, outExists,
                 maxW, maxH, img, cells, reported, fnVars>>

\* ------------------------------------------------------- ProgressTracker
NewProgressTracker(total, q) ==
  [total |-> total, processed |-> 0, quiet |-> q, printed |-> FALSE]

\* ProgressTracker.Update; elapsed tells whether 100ms have passed since the
\* last printed bar.  printed: this call printed the bar.
Update(p, increment, elapsed) ==
  IF p.quiet
    THEN p
    ELSE LET n == p.processed + increment
         IN  [p EXCEPT !.processed = n,
                       !.printed = ~(~elapsed /\ n < p.total)]

\* ------------------------------------------- generateSVGFile / WriteBlocks
\* Variant that goes on with the next write after a failed one.
ContinueAfterWriteError(next) == next

\* "return err" after a failed write: WriteBlocks is left
AfterWriteError(next) == "done"

\* Variant of writeBlock without the alpha-0 skip.
SkipsBlockNever(block) == FALSE

\* Variant that also skips partially transparent blocks.
SkipsBlockTranslucent(block) == block.A < 255

\* writeBlock: if block.A == 0 { return nil }
SkipsBlock(block) == block.A = 0

\* os.Create truncates the output file, or fails.
CreateFile ==
  /\ pc = "create"
  /\ \E ok \in BOOLEAN :
       IF ok THEN /\ out' = <<>>
                  /\ pc' = "header"
                  /\ err' = err
                  /\ created' = TRUE
             ELSE /\ out' = out
                  /\ pc' = "done"
                  /\ err' = "create"
                  /\ created' = created
  /\ bi' = 0
  /\ writes' = 0
  /\ UNCHANGED <<width, height, grid, used, blocks, x, y, run,
                 prevBlocks, prevOut, prevErr, prevQuiet,
                 quiet, progress, envVars, fnVars>>

\* writeHeader, then NewProgressTracker(len(blocks), quiet)
WriteHeader ==
  /\ pc = "header"
  /\ writes' = writes + 1
  /\ \E ok \in BOOLEAN :
       IF ok THEN /\ out' = Append(out, HeaderText(width, height))
                  /\ pc' = "blocks"
                  /\ err' = err
                  /\ progress' = NewProgressTracker(Len(blocks), quiet)
             ELSE /\ out' = out
                  /\ pc' = AfterWriteError("blocks")
                  /\ err' = "write"
                  /\ progress' = progress
  /\ UNCHANGED <<width, height, grid, used, blocks, x, y, bi, run,
                 prevBlocks, prevOut, prevErr, prevQuiet,
                 quiet, created, envVars, fnVars>>

\* one iteration of "for i, block := range blocks": writeBlock(block), then
\* progress.Update(100) when i%100 == 0
WriteBlock ==
  /\ pc = "blocks"
  /\ bi < Len(blocks)
  /\ LET block == blocks[bi + 1]
         Tick  == \E elapsed \in BOOLEAN :
                    progress' = IF bi % 100 = 0
                                  THEN Update(progress, 100, elapsed)
                                  ELSE progress
     IN  IF SkipsBlock(block)
           THEN /\ out' = out
                /\ bi' = bi + 1
                /\ writes' = writes
                /\ Tick
                /\ UNCHANGED <<pc, err>>
           ELSE /\ writes' = writes + 1
                /\ \E ok \in BOOLEAN :
                     IF ok THEN /\ out' = Append(out, RectText(block))
                                /\ bi' = bi + 1
                                /\ Tick
                                /\ UNCHANGED <<pc, err>>
                           ELSE /\ out' = out
                                /\ bi' = IF AfterWriteError("blocks") = "done"
                                           THEN bi ELSE bi + 1
                                /\ pc' = AfterWriteError("blocks")
                                /\ err' = "write"
                                /\ progress' = progress
  /\ UNCHANGED <<width, height, grid, used, blocks, x, y, run,
                 prevBlocks, prevOut, prevErr, prevQuiet,
                 quiet, created, envVars, fnVars>>

\* return w.writeFooter()
WriteFooter ==
  /\ pc = "blocks"
  /\ bi = Len(blocks)
  /\ writes' = writes + 1
  /\ \E ok \in BOOLEAN :
       IF ok THEN /\ out' = Append(out, FooterText)
                  /\ err' = err
             ELSE /\ out' = out
                  /\ err' = "write"
  /\ pc' = "done"
  /\ UNCHANGED <<width, height, grid, used, blocks, x, y, bi, run,
                 prevBlocks, prevOut, prevErr, prevQuiet,
                 quiet, progress, created, envVars, fnVars>>

\* The same grid is converted a second time, after a conversion that
\* returned no error; the quiet flag of the second conversion is free.
Rerun ==
  /\ pc = "done"
  /\ err = "nil"
  /\ run = 1
  /\ run' = 2
  /\ prevBlocks' = blocks
  /\ prevOut' = out
  /\ prevErr' = err
  /\ prevQuiet' = quiet
  /\ err' = "nil"
  /\ pc' = "start"
  /\ quiet' \in BOOLEAN
  /\ progress' = [total |-> width * height,
                  processed |-> IF quiet' THEN 0 ELSE width * height,
                  quiet |-> quiet', printed |-> ~quiet']
  /\ created' = FALSE
  /\ UNCHANGED <<width, height, grid, used, blocks, x, y, bi, out, writes,
                 envVars, fnVars>>

Next ==
  \/ Begin
  \/ SkipUsed
  \/ SkipTransparent
  \/ EmitBlock
  \/ CreateFile
  \/ WriteHeader
  \/ WriteBlock
  \/ WriteFooter

Spec == Init /\ [][Next]_vars

\* One conversion followed by a second conversion of the same grid.
NextRerun ==
  \/ Begin
  \/ SkipUsed
  \/ SkipTransparent
  \/ EmitBlock
  \/ CreateFile
  \/ WriteHeader
  \/ WriteBlock
  \/ WriteFooter
  \/ Rerun

SpecRerun == Init /\ [][NextRerun]_vars

\* findOptimalBlocks alone.
NextEngine ==
  \/ Begin
  \/ SkipUsed
  \/ SkipTransparent
  \/ EmitBlock

SpecEngine == Init /\ [][NextEngine]_vars

\* ------------------------------------------ functions called on their own
\* Values of the conversion variables while a single function is called
\* outside a conversion.
NoConversion ==
  /\ width = 1
  /\ height = 1
  /\ grid = <<>>
  /\ used = <<>>
  /\ blocks = <<>>
  /\ x = 0
  /\ y = 0
  /\ bi = 0
  /\ out = <<>>
  /\ err = "nil"
  /\ run = 1
  /\ prevBlocks = <<>>
  /\ prevOut = <<>>
  /\ prevErr = "nil"
  /\ prevQuiet = FALSE
  /\ quiet = FALSE
  /\ progress = NewProgressTracker(0, FALSE)
  /\ writes = 0
  /\ created = FALSE
  /\ force = FALSE
  /\ inputValid = TRUE
  /\ output = "out.svg"
  /\ outExists = FALSE
  /\ maxW = 0
  /\ maxH = 0
  /\ img = "nil"
  /\ cells = 0
  /\ touched = {}
  /\ reported = 0

conversionVars ==
  <<width, height, grid, used, blocks, x, y, bi, out, err, run,
    prevBlocks, prevOut, prevErr, prevQuiet, quiet, progress, writes,
    created, envVars>>

\* Channel values tried next to a channel that takes every value 0..255:
\* equal nibbles (0x00, 0x11, 0x33, 0xaa, 0xff) and unequal ones.
ChannelSamples == {0, 17, 51, 170, 255, 10, 18, 52, 86, 160, 171, 250}

\* One channel takes every value, the other two the sampled values.
InitColor ==
  /\ NoConversion
  /\ pc = "optimizeColor"
  /\ \E k \in 1..3, v \in 0..255, s1 \in ChannelSamples, s2 \in ChannelSamples :
       arg = CASE k = 1 -> <<v, s1, s2>>
               [] k = 2 -> <<s1, v, s2>>
               [] k = 3 -> <<s1, s2, v>>
  /\ ret = <<>>

\* color := w.optimizeColor(r, g, b)
CallOptimizeColor ==
  /\ pc = "optimizeColor"
  /\ ret' = optimizeColor(arg[1], arg[2], arg[3])
  /\ pc' = "returned"
  /\ UNCHANGED <<conversionVars, arg>>

SpecColor == InitColor /\ [][CallOptimizeColor]_vars

\* Blocks given to writeBlock: every alpha, two rectangles, two colours.
BlockInputs ==
  { [X |-> g[1], Y |-> g[2], Width |-> g[3], Height |-> g[4],
     R |-> c[1], G |-> c[2], B |-> c[3], A |-> a] :
      g \in {<<0, 0, 1, 1>>, <<12, 7, 300, 45>>},
      c \in {<<17, 34, 51>>, <<18, 52, 86>>},
      a \in 0..255 }

InitWriteBlock ==
  /\ NoConversion
  /\ pc = "writeBlock"
  /\ arg \in BlockInputs
  /\ ret = <<>>

\* w.writeBlock(block) with a write that succeeds; ret is what was written
CallWriteBlock ==
  /\ pc = "writeBlock"
  /\ ret' = IF SkipsBlock(arg) THEN <<>> ELSE <<RectText(arg)>>
  /\ pc' = "returned"
  /\ UNCHANGED <<conversionVars, arg>>

SpecWriteBlock == InitWriteBlock /\ [][CallWriteBlock]_vars

\* ------------------------------------------------ WriteBlocks on any list
MaxBlocks == 3

\* Blocks of a list given to WriteBlocks: alpha 0, partial alpha, opaque;
\* X tells the blocks apart.
ListBlocks ==
  { [X |-> 0, Y |-> 0, Width |-> 1, Height |-> 1,
     R |-> 17, G |-> 34, B |-> 51, A |-> 0],
    [X |-> 1, Y |-> 0, Width |-> 1, Height |-> 2,
     R |-> 17, G |-> 34, B |-> 51, A |-> 128],
    [X |-> 2, Y |-> 1, Width |-> 2, Height |-> 1,
     R |-> 18, G |-> 52, B |-> 86, A |-> 255] }

BlockLists == UNION { [1..n -> ListBlocks] : n \in 0..MaxBlocks }

\* generateSVGFile is called with any block list.
InitWriter ==
  /\ width = 4
  /\ height = 2
  /\ grid = <<>>
  /\ used = <<>>
  /\ blocks \in BlockLists
  /\ x = 0
  /\ y = 0
  /\ pc = "create"
  /\ bi = 0
  /\ out = <<>>
  /\ err = "nil"
  /\ run = 1
  /\ prevBlocks = <<>>
  /\ prevOut = <<>>
  /\ prevErr = "nil"
  /\ prevQuiet = FALSE
  /\ quiet \in BOOLEAN
  /\ progress = NewProgressTracker(0, quiet)
  /\ writes = 0
  /\ created = FALSE
  /\ force = FALSE
  /\ inputValid = TRUE
  /\ output = "out.svg"
  /\ outExists = FALSE
  /\ maxW = 0
  /\ maxH = 0
  /\ img = [w |-> 4, h |-> 2]
  /\ cells = 8
  /\ touched = {}
  /\ reported = 0
  /\ arg = <<>>
  /\ ret = <<>>

NextWriter ==
  \/ CreateFile
  \/ WriteHeader
  \/ WriteBlock
  \/ WriteFooter

SpecWriter == InitWriter /\ [][NextWriter]_vars

\* expandBlockRGBA called on its own: a MaxW x MaxH grid whose cells have
\* the colour asked for and are unused (1), have it and are used (2), or
\* have another colour (3), and any start rectangle inside the grid.
ExpandColor == ColorRGBA(17, 34, 51, 128)
OtherColor == ColorRGBA(18, 52, 86, 255)

InitExpand ==
  /\ width = MaxW
  /\ height = MaxH
  /\ \E k \in [0..(MaxH - 1) -> [0..(MaxW - 1) -> 1..3]] :
       /\ grid = [yy \in 0..(MaxH - 1) |->
                    [xx \in 0..(MaxW - 1) |->
                       IF k[yy][xx] = 3 THEN OtherColor ELSE ExpandColor]]
       /\ used = [yy \in 0..(MaxH - 1) |->
                    [xx \in 0..(MaxW - 1) |-> k[yy][xx] = 2]]
  /\ \E px \in 0..(MaxW - 1), py \in 0..(MaxH - 1) :
       \E w \in 1..(MaxW - px), h \in 1..(MaxH - py) :
         arg = <<px, py, w, h>>
  /\ ret = <<>>
  /\ pc = "expandBlockRGBA"
  /\ blocks = <<>>
  /\ x = 0
  /\ y = 0
  /\ bi = 0
  /\ out = <<>>
  /\ err = "nil"
  /\ run = 1
  /\ prevBlocks = <<>>
  /\ prevOut = <<>>
  /\ prevErr = "nil"
  /\ prevQuiet = FALSE
  /\ quiet = FALSE
  /\ progress = NewProgressTracker(0, FALSE)
  /\ writes = 0
  /\ created = FALSE
  /\ force = FALSE
  /\ inputValid = TRUE
  /\ output = "out.svg"
  /\ outExists = FALSE
  /\ maxW = 0
  /\ maxH = 0
  /\ img = "nil"
  /\ cells = 0
  /\ touched = {}
  /\ reported = 0

CallExpandBlock ==
  /\ pc = "expandBlockRGBA"
  /\ ret' = expandBlockRGBA(grid, used, arg[1], arg[2], arg[3], arg[4],
                            ExpandColor, width, height)
  /\ pc' = "returned"
  /\ UNCHANGED <<conversionVars, arg>>

SpecExpand == InitExpand /\ [][CallExpandBlock]_vars

\* ---------------------------------------------- runConversionPipeline
\* The input path of the conversion.
InputPath == "in.png"

\* Requested -w / -h values: negative, 0 (= original), small, above 100000.
RequestedSizes == {-1, 0, 2, 100001}

\* Bounds (Dx, Dy) of the decoded image: small ones, one wider than 30000,
\* one with more than 500 million pixels.
DecodedSizes ==
  {<<1, 1>>, <<2, 1>>, <<3, 1>>, <<1, 2>>, <<30001, 1>>, <<20000, 30000>>}

\* filepath.Ext: the suffix from the last dot on, "" without a dot
RECURSIVE Ext(_)
Ext(path) ==
  IF path = "" THEN ""
  ELSE IF SubSeq(path, Len(path), Len(path)) = "." THEN "."
  ELSE LET e == Ext(SubSeq(path, 1, Len(path) - 1))
       IN  IF e = "" THEN ""
           ELSE e \o SubSeq(path, Len(path), Len(path))

generateOutputName(inputPath) ==
  SubSeq(inputPath, 1, Len(inputPath) - Len(Ext(inputPath))) \o ".svg"

\* dirOk: the directory exists; exists: os.Stat(path) succeeds;
\* writable: the write test in the directory succeeds
validateOutputFile(path, forceOverwrite, dirOk, exists, writable) ==
  IF ~dirOk THEN "output directory does not exist"
  ELSE IF exists /\ ~forceOverwrite THEN "output file already exists"
  ELSE IF ~writable THEN "no write permission"
  ELSE IF Ext(path) # ".svg" THEN "output file must have .svg extension"
  ELSE "nil"

validateDimensions(w, h) ==
  IF w < 0 \/ h < 0 THEN "dimensions cannot be negative"
  ELSE IF w > 100000 \/ h > 100000 THEN "dimensions too large"
  ELSE IF w = 0 /\ h = 0 THEN "both width and height cannot be zero"
  ELSE "nil"

validateInputs(inputOk, out0, w, h, dirOk, exists, writable) ==
  IF ~inputOk THEN "input file"
  ELSE IF out0 # "" /\ validateOutputFile(out0, force, dirOk, exists, writable) # "nil"
    THEN validateOutputFile(out0, force, dirOk, exists, writable)
  ELSE IF (w > 0 \/ h > 0) /\ validateDimensions(w, h) # "nil"
    THEN validateDimensions(w, h)
  ELSE "nil"

\* Variant without the "<= 0" test.
validateImageDimensionsUpperOnly(w, h) ==
  IF w > 30000 \/ h > 30000 THEN "image too large"
  ELSE IF w * h > 500000000 THEN "image has too many pixels"
  ELSE "nil"

validateImageDimensions(w, h) ==
  IF w <= 0 \/ h <= 0 THEN "invalid image dimensions"
  ELSE IF w > 30000 \/ h > 30000 THEN "image too large"
  ELSE IF w * h > 500000000 THEN "image has too many pixels"
  ELSE "nil"

\* calculateSize.  The float64 quotients are compared and truncated as exact
\* rationals (they agree on the sizes used here); a zero divisor in newRatio
\* gives +Inf, so "ratio > newRatio" is false.
calculateSize(w, h, mw0, mh0) ==
  IF mw0 = 0 /\ mh0 = 0 THEN <<w, h>>
  ELSE LET mw == IF mw0 = 0 THEN (w * mh0) \div h ELSE mw0
           mh == IF mh0 = 0 THEN (h * mw) \div w ELSE mh0
       IN  IF mh > 0 /\ w * mh > mw * h
             THEN <<mw, (mw * h) \div w>>
             ELSE <<(mh * w) \div h, mh>>

\* resizeImage: the bounds of the image it returns
resizeImage(im, mw, mh) ==
  IF mw = 0 /\ mh = 0 THEN im
  ELSE LET n == calculateSize(im.w, im.h, mw, mh)
       IN  [w |-> n[1], h |-> n[2]]

\* Variant that leaves the row loop after the first row.
GridLoopDoneAfterFirstRow(yy, h) == yy >= 1

\* "for y := 0; y < height; y++" of createColorGrid is left
GridLoopDone(yy, h) == yy >= h

\* Variant that goes on with the next phase after an error.
IgnoreError(next) == next

\* "if err != nil { return fmt.Errorf(...) }" of runConversionPipeline
ReturnError(next) == "done"

\* Phase 1, and the auto-generated output name.
ValidateInputs ==
  /\ pc = "validate"
  /\ \E dirOk \in BOOLEAN, writable \in BOOLEAN :
       IF validateInputs(inputValid, output, maxW, maxH,
                         dirOk, outExists, writable) # "nil"
         THEN /\ pc' = ReturnError("load")
              /\ err' = "validation"
              /\ output' = output
         ELSE /\ pc' = "load"
              /\ err' = err
              /\ output' = IF output = ""
                             THEN generateOutputName(InputPath)
                             ELSE output
  /\ UNCHANGED <<width, height, grid, used, blocks, x, y, bi, out, run,
                 prevBlocks, prevOut, prevErr, prevQuiet, quiet, progress,
                 writes, created, force, inputValid, outExists, maxW, maxH,
                 img, cells, touched, reported, fnVars>>

\* loadAndPrepareImage up to the resize: getFileSize, loadAndValidateImage
\* (either may fail), resizeImage when a size is requested.
LoadImage ==
  /\ pc = "load"
  /\ \E ok \in BOOLEAN, d \in DecodedSizes :
       IF ok
         THEN /\ img' = IF maxW > 0 \/ maxH > 0
                          THEN resizeImage([w |-> d[1], h |-> d[2]], maxW, maxH)
                          ELSE [w |-> d[1], h |-> d[2]]
              /\ pc' = "dimcheck"
              /\ err' = err
         ELSE /\ img' = img
              /\ pc' = ReturnError("convert")
              /\ err' = "load image"
  /\ UNCHANGED <<width, height, grid, used, blocks, x, y, bi, out, run,
                 prevBlocks, prevOut, prevErr, prevQuiet, quiet, progress,
                 writes, created, force, inputValid, output, outExists,
                 maxW, maxH, cells, touched, reported, fnVars>>

\* the end of loadAndPrepareImage: validateImageDimensions(w, h)
ValidateImageDimensions ==
  /\ pc = "dimcheck"
  /\ IF validateImageDimensions(img.w, img.h) # "nil"
       THEN /\ pc' = ReturnError("convert")
            /\ err' = "validate dimensions"
       ELSE /\ pc' = "convert"
            /\ err' = err
  /\ UNCHANGED <<width, height, grid, used, blocks, x, y, bi, out, run,
                 prevBlocks, prevOut, prevErr, prevQuiet, quiet, progress,
                 writes, created, envVars, fnVars>>

\* Entry of convertImageToBlocks and of createColorGrid: the tracker, and
\* the grid with its rows not yet allocated.  Images beyond the modelled
\* grid sizes are not followed further.
ConvertImageToBlocks ==
  /\ pc = "convert"
  /\ img.w <= MaxW
  /\ img.h <= MaxH
  /\ width' = img.w
  /\ height' = img.h
  /\ progress' = NewProgressTracker(img.w * img.h, quiet)
  /\ grid' = [yy \in 0..(img.h - 1) |-> <<>>]
  /\ x' = 0
  /\ y' = 0
  /\ cells' = 0
  /\ pc' = IF img.w * img.h = 0 THEN "start" ELSE "grid"
  /\ UNCHANGED <<used, blocks, bi, out, err, run,
                 prevBlocks, prevOut, prevErr, prevQuiet, quiet,
                 writes, created, force, inputValid, output, outExists,
                 maxW, maxH, img, touched, reported, fnVars>>

\* One iteration of the inner loop of createColorGrid: the row is allocated
\* at its first cell, the cell takes the colour img.At returns, and
\* progress.Update(1) is called.
BuildCell ==
  /\ pc = "grid"
  /\ \E c \in Palette, elapsed \in BOOLEAN :
       LET row == IF x = 0
                    THEN [xx \in 0..(width - 1) |-> ColorRGBA(0, 0, 0, 0)]
                    ELSE grid[y]
       IN  /\ grid' = [grid EXCEPT ![y] = [row EXCEPT ![x] = c]]
           /\ progress' = Update(progress, 1, elapsed)
  /\ cells' = cells + 1
  /\ IF x + 1 < width
       THEN /\ x' = x + 1
            /\ y' = y
            /\ pc' = pc
       ELSE /\ x' = 0
            /\ y' = y + 1
            /\ pc' = IF GridLoopDone(y + 1, height) THEN "start" ELSE "grid"
  /\ UNCHANGED <<width, height, used, blocks, bi, out, err, run,
                 prevBlocks, prevOut, prevErr, prevQuiet, quiet,
                 writes, created, force, inputValid, output, outExists,
                 maxW, maxH, img, touched, reported, fnVars>>

\* Phase 5: reportConversionResults; getFileSize(output) may fail.
ReportConversionResults ==
  /\ pc = "done"
  /\ err = "nil"
  /\ pc' = "reported"
  /\ reported' = Len(blocks)
  /\ \E ok \in BOOLEAN : err' = IF ok THEN "nil" ELSE "report"
  /\ UNCHANGED <<width, height, grid, used, blocks, x, y, bi, out, run,
                 prevBlocks, prevOut, prevErr, prevQuiet, quiet, progress,
                 writes, created, force, inputValid, output, outExists,
                 maxW, maxH, img, cells, touched, fnVars>>

InitPipeline ==
  /\ width = 0
  /\ height = 0
  /\ grid = <<>>
  /\ used = <<>>
  /\ blocks = <<>>
  /\ x = 0
  /\ y = 0
  /\ pc = "validate"
  /\ bi = 0
  /\ out = <<>>
  /\ err = "nil"
  /\ run = 1
  /\ prevBlocks = <<>>
  /\ prevOut = <<>>
  /\ prevErr = "nil"
  /\ prevQuiet = FALSE
  /\ quiet \in BOOLEAN
  /\ progress = NewProgressTracker(0, quiet)
  /\ writes = 0
  /\ created = FALSE
  /\ force \in BOOLEAN
  /\ inputValid \in BOOLEAN
  /\ output \in {"", "out.svg", "out.txt"}
  /\ outExists \in BOOLEAN
  /\ maxW \in RequestedSizes
  /\ maxH \in RequestedSizes
  /\ img = "nil"
  /\ cells = 0
  /\ touched = {}
  /\ reported = 0
  /\ arg = <<>>
  /\ ret = <<>>

NextPipeline ==
  \/ ValidateInputs
  \/ LoadImage
  \/ ValidateImageDimensions
  \/ ConvertImageToBlocks
  \/ BuildCell
  \/ Begin
  \/ SkipUsed
  \/ SkipTransparent
  \/ EmitBlock
  \/ CreateFile
  \/ WriteHeader
  \/ WriteBlock
  \/ WriteFooter
  \/ ReportConversionResults

SpecPipeline == InitPipeline /\ [][NextPipeline]_vars

\* =================================================================
\* Properties
\* =================================================================
Xs == 0..(width - 1)
Ys == 0..(height - 1)

\* findOptimalBlocks has returned its block list
EngineReturned == pc \in {"create", "header", "blocks", "done"}

\* pixel (i, j) lies inside the rectangle of block b
Covers(b, i, j) ==
  /\ b.X <= i /\ i < b.X + b.Width
  /\ b.Y <= j /\ j < b.Y + b.Height

CoverCount(i, j) == Cardinality({k \in 1..Len(blocks) : Covers(blocks[k], i, j)})

SameColor(b, c) == b.R = c.R /\ b.G = c.G /\ b.B = c.B /\ b.A = c.A

\* --- rendering of the document: source-over painting on an 8-bit RGBA
\* canvas that starts fully transparent.  A rect without fill-opacity is
\* opaque, otherwise its opacity is the written number (thousandths).
Transparent == [R |-> 0, G |-> 0, B |-> 0, A |-> 0]

Over(b, d) ==
  LET sa    == IF b.A < 255 THEN OpacityMilli(b.A) ELSE 1000
      aoNum == sa * 255 + d.A * (1000 - sa)
      Mix(cs, cd) == IF aoNum = 0 THEN 0
                     ELSE (2 * (cs * sa * 255 + cd * d.A * (1000 - sa)) + aoNum)
                            \div (2 * aoNum)
  IN  [R |-> Mix(b.R, d.R), G |-> Mix(b.G, d.G), B |-> Mix(b.B, d.B),
       A |-> (aoNum + 500) \div 1000]

RECURSIVE RenderPixel(_, _, _)
RenderPixel(bs, i, j) ==
  IF bs = <<>> THEN Transparent
  ELSE LET below == RenderPixel(SubSeq(bs, 1, Len(bs) - 1), i, j)
           b     == bs[Len(bs)]
       IN  IF b.A # 0 /\ Covers(b, i, j) THEN Over(b, below) ELSE below

\* --- C1: no pixel lies inside two distinct emitted blocks
C1_NoOverlap ==
  \A k1, k2 \in 1..Len(blocks) :
    k1 # k2 =>
      \A i \in Xs, j \in Ys :
        ~(Covers(blocks[k1], i, j) /\ Covers(blocks[k2], i, j))

\* --- C2: after findOptimalBlocks returns, every pixel whose alpha is not 0
\* lies inside at least one emitted block
C2_NonTransparentCovered ==
  EngineReturned =>
    \A i \in Xs, j \in Ys :
      grid[j][i].A # 0 => \E k \in 1..Len(blocks) : Covers(blocks[k], i, j)

C2_Witness ==
  /\ EngineReturned
  /\ Len(blocks) >= 2
  /\ \E i \in Xs, j \in Ys : grid[j][i].A # 0 /\ (i # blocks[1].X \/ j # blocks[1].Y)
  /\ \E i \in Xs, j \in Ys : grid[j][i].A = 0

\* --- C3: every emitted block is colour-uniform: each pixel of its
\* rectangle is a grid pixel with the (r,g,b,a) recorded on the block
C3_BlocksUniform ==
  \A k \in 1..Len(blocks) :
    \A i \in blocks[k].X..(blocks[k].X + blocks[k].Width - 1),
       j \in blocks[k].Y..(blocks[k].Y + blocks[k].Height - 1) :
      /\ i \in Xs /\ j \in Ys
      /\ SameColor(blocks[k], grid[j][i])

C3_Witness ==
  /\ Len(blocks) >= 2
  /\ \E k \in 1..Len(blocks) : blocks[k].Width >= 2
  /\ \E k \in 1..Len(blocks) : blocks[k].Height >= 2

\* --- C4: every emitted block stays inside the canvas
C4_BlocksInCanvas ==
  \A k \in 1..Len(blocks) :
    /\ blocks[k].X >= 0 /\ blocks[k].Y >= 0
    /\ blocks[k].Width >= 1 /\ blocks[k].Height >= 1
    /\ blocks[k].X + blocks[k].Width <= width
    /\ blocks[k].Y + blocks[k].Height <= height

C4_Witness ==
  \E k \in 1..Len(blocks) :
    /\ blocks[k].X > 0 /\ blocks[k].Y > 0
    /\ blocks[k].X + blocks[k].Width = width
    /\ blocks[k].Y + blocks[k].Height = height

\* --- C5: rendering the emitted blocks in list order on a transparent
\* canvas reproduces the grid at every pixel with alpha # 0, and every
\* pixel with 0 < alpha < 255 is painted by exactly one rect
C5_RenderExact ==
  EngineReturned =>
    \A i \in Xs, j \in Ys :
      grid[j][i].A # 0 =>
        /\ RenderPixel(blocks, i, j) = grid[j][i]
        /\ (grid[j][i].A < 255 => CoverCount(i, j) = 1)

\* --- C6: a pixel with alpha 0 lies inside no emitted block, and the
\* engine has marked it used when it returns
C6_TransparentInNoBlock ==
  /\ \A i \in Xs, j \in Ys :
       grid[j][i].A = 0 => \A k \in 1..Len(blocks) : ~Covers(blocks[k], i, j)
  /\ EngineReturned =>
       \A i \in Xs, j \in Ys : grid[j][i].A = 0 => used[j][i]

\* a transparent pixel right of, and one below, a visible pixel with the
\* same r,g,b
C6_Witness ==
  /\ EngineReturned
  /\ \E i \in Xs, j \in Ys :
       /\ grid[j][i].A = 0
       /\ i > 0 /\ grid[j][i - 1].A # 0 /\ grid[j][i - 1].R = grid[j][i].R
  /\ \E i \in Xs, j \in Ys :
       /\ grid[j][i].A = 0
       /\ j > 0 /\ grid[j - 1][i].A # 0 /\ grid[j - 1][i].R = grid[j][i].R

\* --- C7: a grid with alpha 0 everywhere gives an empty block list, and
\* a WriteBlocks without write error writes the header and the closing tag only
AllTransparent == \A i \in Xs, j \in Ys : grid[j][i].A = 0

C7_AllTransparent ==
  AllTransparent =>
    /\ EngineReturned => blocks = <<>>
    /\ (pc = "done" /\ err = "nil") =>
         /\ Len(out) = 2
         /\ out[1] = "<?xml version=\"1.0\" encoding=\"UTF-8\"?><svg width=\""
                       \o Itoa(width) \o "\" height=\"" \o Itoa(height)
                       \o "\" xmlns=\"http://www.w3.org/2000/svg\">"
         /\ out[2] = "</svg>"

C7_Witness ==
  /\ AllTransparent
  /\ width * height >= 4
  /\ pc = "done" /\ err = "nil"
  /\ Len(out) = 2

\* --- C8: a uniform grid of one opaque colour gives exactly one block,
\* {0, 0, w, h, colour}
UniformOpaque ==
  /\ grid[0][0].A = 255
  /\ \A i \in Xs, j \in Ys : grid[j][i] = grid[0][0]

C8_UniformOneBlock ==
  (UniformOpaque /\ EngineReturned) =>
    blocks = << [X |-> 0, Y |-> 0, Width |-> width, Height |-> height,
                 R |-> grid[0][0].R, G |-> grid[0][0].G,
                 B |-> grid[0][0].B, A |-> grid[0][0].A] >>

C8_Witness ==
  /\ UniformOpaque /\ EngineReturned
  /\ width >= 2 /\ height >= 2
  /\ Len(blocks) = 1

\* an alternating grid of two colours, both of which occur
Checkerboard ==
  \E c1, c2 \in Palette :
    /\ c1 # c2
    /\ width * height >= 2
    /\ \A i \in Xs, j \in Ys :
         grid[j][i] = IF (i + j) % 2 = 0 THEN c1 ELSE c2

AllOneByOne ==
  /\ Len(blocks) = width * height
  /\ \A k \in 1..Len(blocks) : blocks[k].Width = 1 /\ blocks[k].Height = 1

\* --- C9: an alternating two-colour grid (any two colours) gives w*h
\* blocks, each 1x1
C9_CheckerboardAnyColours ==
  (Checkerboard /\ EngineReturned) => AllOneByOne

\* --- C9 amended: an alternating grid of two colours that both have alpha # 0
\* gives w*h blocks, each 1x1
C9_CheckerboardVisible ==
  (Checkerboard /\ (\A i \in Xs, j \in Ys : grid[j][i].A # 0) /\ EngineReturned)
    => AllOneByOne

C9_Witness ==
  /\ Checkerboard /\ EngineReturned
  /\ \A i \in Xs, j \in Ys : grid[j][i].A # 0
  /\ width >= 2 /\ height >= 2
  /\ Len(blocks) = width * height

\* --- C10: a second conversion of the same grid returns the same block
\* sequence, and two conversions without write error write the same strings
C10_Deterministic ==
  run = 2 =>
    /\ EngineReturned => blocks = prevBlocks
    /\ (pc = "done" /\ err = "nil") => out = prevOut

C10_Witness ==
  /\ run = 2 /\ pc = "done" /\ err = "nil"
  /\ Len(blocks) >= 2
  /\ \E i \in Xs, j \in Ys : grid[j][i].A = 0
  /\ Len(out) = Len(blocks) + 2

\* --- reading the written text
CharAt(s, i) == SubSeq(s, i, i)

\* first position >= i at which sub occurs in s, or 0
RECURSIVE FindFrom(_, _, _)
FindFrom(s, sub, i) ==
  IF i + Len(sub) - 1 > Len(s) THEN 0
  ELSE IF SubSeq(s, i, i + Len(sub) - 1) = sub THEN i
  ELSE FindFrom(s, sub, i + 1)

Contains(s, sub) == FindFrom(s, sub, 1) # 0

StartsWith(s, sub) == Len(s) >= Len(sub) /\ SubSeq(s, 1, Len(sub)) = sub

EndsWith(s, sub) ==
  Len(s) >= Len(sub) /\ SubSeq(s, Len(s) - Len(sub) + 1, Len(s)) = sub

HasAttr(s, name) == Contains(s, " " \o name \o "=\"")

\* the text between the quotes of attribute name (name must be present)
AttrValue(s, name) ==
  LET key   == " " \o name \o "=\""
      start == FindFrom(s, key, 1) + Len(key)
      stop  == FindFrom(s, "\"", start)
  IN  SubSeq(s, start, stop - 1)

\* value of a decimal / lowercase hexadecimal digit, -1 for another character
DigitVal(c) == FindFrom("0123456789", c, 1) - 1
HexVal(c) == FindFrom("0123456789abcdef", c, 1) - 1

\* value of a non-empty string of decimal digits
RECURSIVE Atoi(_)
Atoi(s) ==
  IF Len(s) = 1 THEN DigitVal(s)
  ELSE 10 * Atoi(SubSeq(s, 1, Len(s) - 1)) + DigitVal(CharAt(s, Len(s)))

Abs(n) == IF n < 0 THEN -n ELSE n

\* --- C11: optimizeColor returns '#' and the three high nibbles exactly when
\* every channel has equal nibbles, else '#' and six lowercase hex digits;
\* the returned string decodes to (r,g,b); (0x11,0x22,0x33) gives #123 and
\* (0x12,0x34,0x56) gives #123456
C11_OptimizeColor ==
  pc = "returned" =>
    LET r == arg[1]
        g == arg[2]
        b == arg[3]
        short == r \div 16 = r % 16 /\ g \div 16 = g % 16 /\ b \div 16 = b % 16
        h(i) == HexVal(CharAt(ret, i))
    IN  /\ Len(ret) = IF short THEN 4 ELSE 7
        /\ CharAt(ret, 1) = "#"
        /\ \A i \in 2..Len(ret) : h(i) >= 0
        /\ Len(ret) = 4 =>
             /\ <<h(2), h(3), h(4)>> = <<r \div 16, g \div 16, b \div 16>>
             /\ <<17 * h(2), 17 * h(3), 17 * h(4)>> = arg
        /\ Len(ret) = 7 =>
             <<16 * h(2) + h(3), 16 * h(4) + h(5), 16 * h(6) + h(7)>> = arg
        /\ arg = <<17, 34, 51>> => ret = "#123"
        /\ arg = <<18, 52, 86>> => ret = "#123456"

C11_Witness ==
  /\ pc = "returned"
  /\ arg = <<170, 255, 0>>
  /\ ret = "#af0"

\* --- C12: writeBlock writes nothing for A = 0; otherwise it writes exactly
\* one rect element, always with a fill attribute, and with a fill-opacity
\* attribute if and only if 1 <= A <= 254
C12_WriteBlockAttributes ==
  pc = "returned" =>
    IF arg.A = 0
      THEN ret = <<>>
      ELSE /\ Len(ret) = 1
           /\ StartsWith(ret[1], "<rect ")
           /\ EndsWith(ret[1], "/>")
           /\ FindFrom(ret[1], "<", 2) = 0
           /\ HasAttr(ret[1], "fill")
           /\ HasAttr(ret[1], "fill-opacity") <=> (1 <= arg.A /\ arg.A <= 254)

C12_Witness ==
  /\ pc = "returned"
  /\ arg.A = 255
  /\ Len(ret) = 1
  /\ ~HasAttr(ret[1], "fill-opacity")

\* --- C13: for A in 1..254 the fill-opacity written is A/255 rounded to
\* three decimals (128 gives 0.502); no other alpha in 1..254 gives the same
\* string, and the alpha is recovered from it
C13_OpacityInjective ==
  (pc = "returned" /\ 1 <= arg.A /\ arg.A <= 254) =>
    LET v == AttrValue(ret[1], "fill-opacity")
        t == 1000 * DigitVal(CharAt(v, 1)) + Atoi(SubSeq(v, 3, 5))
    IN  /\ Len(v) = 5
        /\ CharAt(v, 2) = "."
        /\ \A i \in {1, 3, 4, 5} : DigitVal(CharAt(v, i)) >= 0
        /\ 2 * Abs(1000 * arg.A - 255 * t) <= 255
        /\ arg.A = 128 => v = "0.502"
        /\ (255 * t + 500) \div 1000 = arg.A
        /\ \A a2 \in 1..254 :
             a2 # arg.A =>
               AttrValue(RectText([arg EXCEPT !.A = a2]), "fill-opacity") # v

C13_Witness ==
  /\ pc = "returned"
  /\ arg.A = 128
  /\ Len(ret) = 1
  /\ AttrValue(ret[1], "fill-opacity") = "0.502"

\* --- C14: when no write fails, WriteBlocks writes the header first, then
\* one rect per block with A # 0 in the order of the list, then the closing
\* tag, last and once; an empty list gives header and closing tag
VisibleBlocks == SelectSeq(blocks, LAMBDA b : b.A # 0)

C14_WriteOrder ==
  /\ Len(out) >= 1 => StartsWith(out[1], "<?xml") /\ Contains(out[1], "<svg ")
  /\ \A k \in 1..Len(out) :
       Contains(out[k], "</svg>") => (k = Len(out) /\ pc = "done")
  /\ (pc = "done" /\ err = "nil") =>
       /\ Len(out) = Len(VisibleBlocks) + 2
       /\ out[Len(out)] = "</svg>"
       /\ \A k \in 1..Len(VisibleBlocks) :
            /\ StartsWith(out[k + 1], "<rect ")
            /\ Atoi(AttrValue(out[k + 1], "x")) = VisibleBlocks[k].X
            /\ Atoi(AttrValue(out[k + 1], "y")) = VisibleBlocks[k].Y
            /\ Atoi(AttrValue(out[k + 1], "width")) = VisibleBlocks[k].Width
            /\ Atoi(AttrValue(out[k + 1], "height")) = VisibleBlocks[k].Height
       /\ blocks = <<>> => Len(out) = 2

C14_Witness ==
  /\ pc = "done" /\ err = "nil"
  /\ Len(blocks) = 3
  /\ blocks[1].A # 0 /\ blocks[2].A = 0 /\ blocks[3].A # 0
  /\ blocks[1].X > blocks[3].X
  /\ Len(out) = 4

\* --- C15: for the same grid, the block list of the engine and the text
\* written by the serializer are the same with quiet set and with quiet
\* clear, whatever the ProgressTracker holds
C15_QuietNoEffect ==
  (run = 2 /\ quiet # prevQuiet) =>
    /\ EngineReturned => blocks = prevBlocks
    /\ (pc = "done" /\ err = "nil") => out = prevOut

C15_Witness ==
  /\ run = 2
  /\ quiet # prevQuiet
  /\ pc = "done" /\ err = "nil"
  /\ Len(blocks) >= 2
  /\ Len(out) >= 3
  /\ out = prevOut

\* --- C16: the engine is invoked only with 1 <= w <= 30000,
\* 1 <= h <= 30000 and w*h <= 500,000,000, also after a resize whose target
\* width or height is 0; with other dimensions the pipeline returns an error
\* without invoking it
ValidEngineDims(w, h) ==
  /\ 1 <= w /\ w <= 30000
  /\ 1 <= h /\ h <= 30000
  /\ w * h <= 500000000

C16_EngineDimsValid ==
  [][ /\ pc' = "convert" => ValidEngineDims(img'.w, img'.h)
      /\ pc' \in {"grid", "start"} => ValidEngineDims(width', height')
      /\ (pc = "dimcheck" /\ ~ValidEngineDims(img.w, img.h)) =>
           (pc' = "done" /\ err' = "validate dimensions") ]_vars

C16_Witness ==
  /\ pc = "done"
  /\ err = "validate dimensions"
  /\ maxW > 0
  /\ img.w > 0
  /\ img.h = 0

\* --- C17: when a file exists at the output path and force is not set, the
\* pipeline returns an error before the image is loaded and never creates
\* or truncates the file, for a given and for an auto-generated output path
C17_NoOverwriteWithoutForce ==
  (outExists /\ ~force) =>
    /\ ~created
    /\ pc \in {"validate", "done"}
    /\ pc = "done" => err = "validation"

\* --- C18: a requested width or height below zero is rejected: the
\* pipeline returns a validation error before the image is loaded
C18_NegativeRejected ==
  (maxW < 0 \/ maxH < 0) =>
    /\ pc \in {"validate", "done"}
    /\ pc = "done" => err = "validation"

\* --- C19: the stages run in the order validation, load/resize/dimension
\* check, grid construction, decomposition, serialization, reporting;
\* decomposition starts only when all w*h grid cells are written, and
\* serialization only when the engine has returned the whole block list
StageOf(p) ==
  CASE p = "validate" -> 1
    [] p \in {"load", "dimcheck"} -> 2
    [] p \in {"convert", "grid"} -> 3
    [] p \in {"start", "scan"} -> 4
    [] p \in {"create", "header", "blocks", "done"} -> 5
    [] p = "reported" -> 6

GridWritten ==
  /\ cells = width * height
  /\ DOMAIN grid = 0..(height - 1)
  /\ \A yy \in 0..(height - 1) :
       /\ DOMAIN grid[yy] = 0..(width - 1)
       /\ \A xx \in 0..(width - 1) : grid[yy][xx] \in Palette

EngineFinished ==
  /\ y = height
  /\ \A yy \in 0..(height - 1) : \A xx \in 0..(width - 1) : used[yy][xx]

C19_StageOrder ==
  [][ /\ (pc' # pc /\ pc' # "done") =>
           /\ StageOf(pc') \in {StageOf(pc), StageOf(pc) + 1}
           /\ pc # "done" \/ (err = "nil" /\ out[Len(out)] = "</svg>")
      /\ pc' \in {"start", "scan"} => GridWritten'
      /\ pc \in {"start", "scan"} => grid' = grid
      /\ pc' \in {"create", "header", "blocks"} => EngineFinished'
      /\ pc \in {"create", "header", "blocks"} => blocks' = blocks ]_vars

C19_Witness ==
  /\ pc = "reported"
  /\ err = "nil"
  /\ cells = 4
  /\ Len(blocks) >= 2
  /\ Len(out) >= 4

\* --- C20: a failed write of the header, a block or the footer ends
\* WriteBlocks at once: no later write is attempted, and the file with
\* what was written before stays in place
C20_WriteErrorStops ==
  [][ /\ err' = "write" =>
           /\ pc' = "done"
           /\ created'
           /\ Len(out') = writes' - 1
      /\ err = "write" =>
           /\ writes' = writes
           /\ out' = out
           /\ created' = created ]_vars

C20_Witness ==
  /\ err = "write"
  /\ pc = "done"
  /\ created
  /\ Len(out) = 2
  /\ bi < Len(blocks)

\* --- C21: findOptimalBlocks returns on every grid with w,h >= 1, and no
\* grid or used-mask cell it reads or writes (run scan, vertical extent,
\* expansion checks, marking) lies outside [0,w) x [0,h)
\* Seed positions left to visit: positive while the loop runs (whose seed
\* is then a cell of the grid, so that one of its three branches is taken),
\* smaller after every iteration, zero exactly when the function returns.
RemainingSeeds == (height - y) * width - x

C21_TerminatesInBounds ==
  /\ [](touched \subseteq (0..(height - 1)) \X (0..(width - 1)))
  /\ [](pc = "scan" => (x \in Xs /\ y \in Ys /\ RemainingSeeds >= 1))
  /\ [][ pc = "scan" =>
           /\ RemainingSeeds' < RemainingSeeds
           /\ RemainingSeeds' >= 0
           /\ RemainingSeeds' = 0 <=> pc' = "create" ]_vars

C21_Witness ==
  /\ pc = "create"
  /\ width = 2 /\ height = 1
  /\ Len(blocks) = 1
  /\ touched = {<<0, 0>>, <<0, 1>>}

\* --- C22: with quiet clear the serializer's tracker counts one unit per
\* block: its completed count never exceeds its total n, and equals n when
\* WriteBlocks has processed the n blocks
C22_ProgressPerBlock ==
  ~quiet =>
    /\ progress.processed <= progress.total
    /\ (pc = "done" /\ err = "nil") => progress.processed = Len(blocks)

\* --- C23: during findOptimalBlocks a used-mask cell goes from false to
\* true once and is not written again: the transparent skip and
\* markBlockUsed are applied only to cells that are still false
WrittenUsedCells ==
  IF Len(blocks') > Len(blocks)
    THEN LET b == blocks'[Len(blocks')]
         IN  (b.Y..(b.Y + b.Height - 1)) \X (b.X..(b.X + b.Width - 1))
    ELSE IF used' # used THEN {<<y, x>>} ELSE {}

C23_UsedWrittenOnce ==
  [][ pc = "scan" =>
        /\ \A c \in WrittenUsedCells : ~used[c[1]][c[2]]
        /\ \A yy \in Ys : \A xx \in Xs : used[yy][xx] => used'[yy][xx] ]_vars

\* --- C24: expandBlockRGBA tries the column to the right before the row
\* below and returns a locally maximal rectangle: it touches the right edge
\* or the next column (over the final height) holds a used or other-colour
\* cell, and it touches the bottom edge or the next row (over the final
\* width) holds one; width and height are not smaller than the inputs
Blocked(yy, xx) == used[yy][xx] \/ grid[yy][xx] # ExpandColor

C25_ScanSkipsBlock ==
  [][ /\ (pc = "scan" /\ Len(blocks') > Len(blocks)) =>
           LET b == blocks'[Len(blocks')]
           IN  /\ b.X = x /\ b.Y = y
               /\ IF x + b.Width < width
                    THEN x' = x + b.Width /\ y' = y /\ pc' = "scan"
                    ELSE x' = 0 /\ y' = y + 1 /\ pc' \in {"scan", "create"}
      /\ pc' = "scan" =>
           \A k \in 1..Len(blocks') :
             ~(y' = blocks'[k].Y /\ blocks'[k].X < x'
                 /\ x' < blocks'[k].X + blocks'[k].Width) ]_vars

C25_Witness ==
  /\ pc = "scan"
  /\ width = 2 /\ height = 2
  /\ x = 0 /\ y = 1
  /\ Len(blocks) = 1
  /\ blocks[1].Width = 2 /\ blocks[1].Height = 1

\* the longest run of the seed's colour in row py from px on, and the
\* number of rows from py on in which columns px..px+w-1 all have it
RunWidth(px, py) ==
  CHOOSE k \in 1..(width - px) :
    /\ \A i \in 0..(k - 1) : grid[py][px + i] = grid[py][px]
    /\ px + k = width \/ grid[py][px + k] # grid[py][px]

RunHeight(px, py, w) ==
  CHOOSE k \in 1..(height - py) :
    /\ \A j \in 0..(k - 1) : \A i \in 0..(w - 1) :
         grid[py + j][px + i] = grid[py][px]
    /\ \/ py + k = height
       \/ \E i \in 0..(w - 1) : grid[py + k][px + i] # grid[py][px]

EmitsBlock == pc = "scan" /\ Len(blocks') > Len(blocks)

\* --- C26: the horizontal run and the vertical extent computed for a seed
\* contain no cell that was already used when the seed was reached
C26_RunAvoidsUsed ==
  [][ EmitsBlock =>
        \A yy \in y..(y + RunHeight(x, y, RunWidth(x, y)) - 1) :
          \A xx \in x..(x + RunWidth(x, y) - 1) : ~used[yy][xx] ]_vars

\* --- C28: for every seed the size expandBlockRGBA returns is the size
\* findMaxWidthRGBA and findMaxHeightRGBA computed: each emitted block is
\* the maximal horizontal run times its maximal vertical extent
C28_ExpansionIsIdentity ==
  [][ EmitsBlock =>
        LET b == blocks'[Len(blocks')]
        IN  /\ b.Width = RunWidth(x, y)
            /\ b.Height = RunHeight(x, y, RunWidth(x, y)) ]_vars

C28_Witness ==
  /\ pc = "scan"
  /\ width = 2 /\ height = 2
  /\ Len(blocks) = 1
  /\ blocks[1].Width = 2 /\ blocks[1].Height = 1
  /\ grid[1][0] = grid[0][0]
  /\ grid[1][1] # grid[0][0]

\* --- C27: when input validation, output validation, requested-dimension
\* validation, decoding or image-dimension validation fails, the pipeline
\* returns an error and generateSVGFile is not called: the output file is
\* neither created nor truncated
RejectedRequest ==
  \/ ~inputValid
  \/ output = "out.txt"
  \/ (output = "out.svg" /\ outExists /\ ~force)
  \/ maxW > 100000
  \/ maxH > 100000
  \/ ((maxW > 0 \/ maxH > 0) /\ (maxW < 0 \/ maxH < 0))

C27_NoOutputAfterEarlyError ==
  /\ err \in {"validation", "load image", "validate dimensions"} =>
       (pc = "done" /\ ~created /\ writes = 0 /\ out = <<>>)
  /\ RejectedRequest =>
       (pc \in {"validate", "done"} /\ ~created
          /\ (pc = "done" => err = "validation"))

C27_Witness ==
  /\ pc = "done"
  /\ err = "load image"
  /\ outExists /\ force
  /\ ~created

\* --- C29: every block the engine returns has A >= 1, so writeBlock's
\* alpha-0 skip does not fire on it: the number of rect elements written is
\* the length of the block list, which is the count given to the report
RectsWritten == Cardinality({k \in 1..Len(out) : StartsWith(out[k], "<rect ")})

C29_RectPerBlock ==
  /\ \A k \in 1..Len(blocks) : blocks[k].A >= 1
  /\ (pc \in {"done", "reported"} /\ err \in {"nil", "report"}) =>
       (RectsWritten = Len(blocks) /\ writes = Len(blocks) + 2)
  /\ pc = "blocks" => RectsWritten = bi
  /\ pc = "reported" => reported = Len(blocks)

C29_Witness ==
  /\ pc = "reported"
  /\ err = "nil"
  /\ width = 2 /\ height = 2
  /\ \E yy \in Ys : \E xx \in Xs : grid[yy][xx].A = 0
  /\ reported = 2
  /\ RectsWritten = 2
  /\ blocks[1].A = 128

\* --- C30: the block list is in strictly increasing row-major order of
\* seed position (Y, then X), so no two blocks have the same (X,Y), and it
\* has no more blocks than the grid has pixels with alpha # 0
VisiblePixels ==
  {c \in Ys \X Xs : grid[c[1]][c[2]].A # 0}

C30_RowMajorOrder ==
  /\ \A i \in 1..Len(blocks) : \A j \in 1..Len(blocks) :
       i < j =>
         \/ blocks[i].Y < blocks[j].Y
         \/ (blocks[i].Y = blocks[j].Y /\ blocks[i].X < blocks[j].X)
  /\ Len(blocks) <= Cardinality(VisiblePixels)

C30_Witness ==
  /\ EngineReturned
  /\ Len(blocks) = 3
  /\ blocks[1].Y = 0 /\ blocks[2].Y = 0 /\ blocks[3].Y = 1
  /\ Cardinality(VisiblePixels) = 3

====
